---- MODULE Spec2Model ----
(***************************************************************************)
(* A model of src/Lyapunov/lyapunov.py: the vector primitives, the         *)
(* Gram-Schmidt step, the iterative Lyapunov estimator, the closed-form    *)
(* estimators, the sweep dispatcher calc_lya_henon and the classifier      *)
(* det_att.                                                                *)
(*                                                                         *)
(* Numbers.  A float is modelled by an exact rational <<n, d>> in lowest   *)
(* terms with d > 0, or by NaN == <<0, 0>>.  Every division by zero the    *)
(* program performs is 0/0 (norm_vect(u) = 0 only for the zero vector u,   *)
(* whose components and inner products are 0), which numpy evaluates to    *)
(* nan with a warning and no exception.                                    *)
(*                                                                         *)
(* Logarithms.  A value log(P)/N is modelled by the record                 *)
(* [P |-> P, N |-> N]: a sum of logarithms is the logarithm of the         *)
(* product, log(0) = -inf is P = 0, and two values with the same N compare *)
(* as their P do.                                                          *)
(***************************************************************************)
EXTENDS Integers, Sequences, FiniteSets, TLC

VARIABLES
    \* ---- calc_lya_henon(Ninit, cutoff, start, A, B): arguments and locals
    pc,             \* position in calc_lya_henon
    Ninit, cutoff,  \* arguments
    A, B,           \* arguments: [t |-> Python type, v |-> the values, in order]
    ia, ib,         \* positions of the loops "for a in A" / "for b in B" (1-based)
    xvalues, yvalues, point_attr, lim_cycle, basisVects,
    all_exp1, all_exp2, a_exp1, a_exp2,
    lya,            \* the local lya (what Lyapunov returned)
    ret,            \* the value returned
    exc,            \* the exception raised ("": none)
    calls,          \* the calls made for the current cell, Henon first
    eig,            \* the eigenvalue oracle ge.solve_eig_vals
    \* ---- Lyapunov(N, basis, xvalues, A, B): arguments and locals
    lpc, l_N, l_basis, l_xvalues, l_A, l_B, l_J, l_u_nk, l_exponents, l_n,
    \* ---- det_att(lya1, lya2, acc)
    dpc, d_lya1, d_lya2, d_acc, d_ret,
    \* ---- Gram_Schmidt(vectors)
    gpc, g_vectors, g_ret

mapVars == <<pc, Ninit, cutoff, A, B, ia, ib, xvalues, yvalues, point_attr,
             lim_cycle, basisVects, all_exp1, all_exp2, a_exp1, a_exp2, lya,
             ret, exc, calls, eig>>
lyaVars == <<lpc, l_N, l_basis, l_xvalues, l_A, l_B, l_J, l_u_nk, l_exponents, l_n>>
detVars == <<dpc, d_lya1, d_lya2, d_acc, d_ret>>
gsVars  == <<gpc, g_vectors, g_ret>>
vars    == <<mapVars, lyaVars, detVars, gsVars>>

\* Python's None, and a local name not yet bound.  A value that may be None
\* is a record of its own kind: a list, a tuple, a point, a cycle.
None == [none |-> TRUE]
Unbound == [unbound |-> TRUE]
PyList(s) == [list |-> s]
PyTuple(s) == [tuple |-> s]

(***************************************************************************)
(* Floats as exact rationals.                                              *)
(***************************************************************************)
NaN == <<0, 0>>

IsNaN(x) == x[2] = 0

Abs(n) == IF n < 0 THEN -n ELSE n

RECURSIVE GCD(_, _)
GCD(a, b) == IF b = 0 THEN a ELSE GCD(b, a % b)

\* n/d in lowest terms, d # 0.
Frac(n, d) ==
    LET g == GCD(Abs(n), Abs(d))
        s == IF d < 0 THEN -1 ELSE 1
    IN  <<s * (n \div g), (s * d) \div g>>

Num(n) == <<n, 1>>

\* Common factors are divided out before multiplying, to keep the
\* intermediate integers small.
FAdd(x, y) ==
    IF IsNaN(x) \/ IsNaN(y) THEN NaN
    ELSE LET g == GCD(x[2], y[2])
         IN  Frac(x[1] * (y[2] \div g) + y[1] * (x[2] \div g), x[2] * (y[2] \div g))

FNeg(x) == <<-x[1], x[2]>>

FSub(x, y) == FAdd(x, FNeg(y))

FMul(x, y) ==
    IF IsNaN(x) \/ IsNaN(y) THEN NaN
    ELSE LET g1 == GCD(Abs(x[1]), y[2])
             g2 == GCD(Abs(y[1]), x[2])
         IN  Frac((x[1] \div g1) * (y[1] \div g2), (x[2] \div g2) * (y[2] \div g1))

\* x / y; the only zero divisors the program meets have a zero dividend.
FDiv(x, y) ==
    IF IsNaN(x) \/ IsNaN(y) \/ y[1] = 0 THEN NaN
    ELSE FMul(x, IF y[1] < 0 THEN <<-y[2], -y[1]>> ELSE <<y[2], y[1]>>)

\* x < y; every comparison with nan is False.
FLt(x, y) == ~IsNaN(x) /\ ~IsNaN(y) /\ x[1] * y[2] < y[1] * x[2]

FAbs(x) == <<Abs(x[1]), x[2]>>

\* sum(values) of a list of floats, left to right from 0.
RECURSIVE FSum(_)
FSum(values) ==
    IF values = <<>> THEN Num(0)
    ELSE FAdd(FSum(SubSeq(values, 1, Len(values) - 1)), values[Len(values)])

(***************************************************************************)
(* VectorOps                                                               *)
(***************************************************************************)
norm_vect(vector) == FSum([i \in 1..Len(vector) |-> FMul(vector[i], vector[i])])

inner_vect(vect1, vect2) ==
    FSum([i \in 1..Len(vect1) |-> FMul(vect1[i], vect2[i])])

\* scalar * array and array - array, elementwise (numpy).
Scale(c, v) == [i \in 1..Len(v) |-> FMul(c, v[i])]
VSub(v, w)  == [i \in 1..Len(v) |-> FSub(v[i], w[i])]
VDiv(v, c)  == [i \in 1..Len(v) |-> FDiv(v[i], c)]

proj_vect(vect1, vect2) ==
    Scale(FDiv(inner_vect(vect1, vect2), norm_vect(vect1)), vect1)

basis(dim) == [i \in 1..dim |-> [k \in 1..dim |-> IF k = i THEN Num(1) ELSE Num(0)]]

(***************************************************************************)
(* Orthogonalizer.  The inner loop over j rebinds new_vect on every pass,  *)
(* so the value appended is the one computed for the last j.               *)
(***************************************************************************)
RECURSIVE GSInnerLoop(_, _, _, _)
GSInnerLoop(vectors, v, j, new_vect) ==
    IF j >= v THEN new_vect
    ELSE GSInnerLoop(vectors, v, j + 1,
                     VSub(vectors[v + 1], proj_vect(vectors[j + 1], vectors[v + 1])))

\* The same loop stopped after its first pass (j = 0).
GSInnerFirstOnly(vectors, v) ==
    VSub(vectors[v + 1], proj_vect(vectors[1], vectors[v + 1]))

GSInner(vectors, v) == GSInnerLoop(vectors, v, 0, None)

RECURSIVE GSOuterLoop(_, _, _)
GSOuterLoop(vectors, v, acc) ==
    IF v >= Len(vectors) THEN acc
    ELSE GSOuterLoop(vectors, v + 1, Append(acc, GSInner(vectors, v)))

Gram_Schmidt(vectors) == GSOuterLoop(vectors, 1, <<vectors[1]>>)

(***************************************************************************)
(* Logarithms: log(P)/N as [P, N].                                         *)
(***************************************************************************)
LogOf(x) == [P |-> x, N |-> 1]

\* item1 > item2 and item1 < item2 for two values with the same N.
LGt(l1, l2) == FLt(l2.P, l1.P)
LLt(l1, l2) == FLt(l1.P, l2.P)

\* Python's max and min of two items: the first one unless the second beats it.
PyMax(x, y) == IF LGt(y, x) THEN y ELSE x
PyMin(x, y) == IF LLt(y, x) THEN y ELSE x

\* np.mean of a non-empty list of values log(P_i)/1.
RECURSIVE ProdP(_)
ProdP(ls) == IF ls = <<>> THEN Num(1)
             ELSE FMul(ProdP(SubSeq(ls, 1, Len(ls) - 1)), ls[Len(ls)].P)

NpMean(ls) == [P |-> ProdP(ls), N |-> Len(ls)]

(***************************************************************************)
(* ExponentIterator                                                        *)
(***************************************************************************)
Jacobian(av, bv, x) ==
    << <<FMul(FMul(Num(-2), av), x), Num(1)>>, <<bv, Num(0)>> >>

\* np.matmul(J, b) for a 2x2 J and a vector b.
MatMul(M, b) == [r \in 1..Len(M) |-> inner_vect(M[r], b)]

\* One pass: propagate, orthogonalize, accumulate log-norms, normalize.
\* exponents holds, per slot, the P of the running sum log(P).
LyaPass(M, vecs, exponents) ==
    LET dim  == Len(vecs)
        v_nk == [i \in 1..dim |-> MatMul(M, vecs[i])]
        u    == Gram_Schmidt([i \in 1..dim |-> v_nk[i]])
    IN  [u_nk      |-> [i \in 1..dim |-> VDiv(u[i], norm_vect(u[i]))],
         exponents |-> [i \in 1..dim |-> FMul(exponents[i], norm_vect(u[i]))]]

\* No call of Lyapunov is active: its arguments and locals are gone.
LyaIdle ==
    /\ lpc = "off"
    /\ l_N = 0 /\ l_basis = Unbound /\ l_xvalues = Unbound
    /\ l_A = Unbound /\ l_B = Unbound /\ l_J = Unbound
    /\ l_u_nk = Unbound /\ l_exponents = Unbound /\ l_n = 0

\* The first step, were it to store the normalized vectors into the list the
\* caller built (no copy taken, the slots written in place).
LyaFirstInPlace ==
    /\ lpc = "first"
    /\ LET M == Jacobian(l_A, l_B, l_xvalues[1])
           r == LyaPass(M, l_basis, [i \in 1..Len(l_basis) |-> Num(1)])
       IN  /\ l_J' = M
           /\ l_u_nk' = r.u_nk
           /\ l_exponents' = r.exponents
           /\ l_basis' = r.u_nk
           /\ basisVects' = PyList(r.u_nk)
    /\ l_n' = 1
    /\ lpc' = "loop"
    /\ UNCHANGED <<l_N, l_xvalues, l_A, l_B>>
    /\ UNCHANGED <<pc, Ninit, cutoff, A, B, ia, ib, xvalues, yvalues, point_attr,
                   lim_cycle, all_exp1, all_exp2, a_exp1, a_exp2, lya,
                   ret, exc, calls, eig>>
    /\ UNCHANGED <<detVars, gsVars>>

\* Lines 62-75: the first step, on the basis passed in.
LyaFirst ==
    /\ lpc = "first"
    /\ LET M == Jacobian(l_A, l_B, l_xvalues[1])
           r == LyaPass(M, l_basis, [i \in 1..Len(l_basis) |-> Num(1)])
       IN  /\ l_J' = M
           /\ l_u_nk' = r.u_nk
           /\ l_exponents' = r.exponents
    /\ l_n' = 1
    /\ lpc' = "loop"
    /\ UNCHANGED <<l_N, l_basis, l_xvalues, l_A, l_B>>
    /\ UNCHANGED <<mapVars, detVars, gsVars>>

\* Lines 77-88: iteration n of the loop; the Jacobian is rebuilt last.
LyaLoop ==
    /\ lpc = "loop"
    /\ l_n < l_N
    /\ LET r == LyaPass(l_J, l_u_nk, l_exponents)
       IN  /\ l_u_nk' = r.u_nk
           /\ l_exponents' = r.exponents
    /\ l_J' = Jacobian(l_A, l_B, l_xvalues[l_n + 1])
    /\ l_n' = l_n + 1
    /\ UNCHANGED <<lpc, l_N, l_basis, l_xvalues, l_A, l_B>>
    /\ UNCHANGED <<mapVars, detVars, gsVars>>

\* Lines 90-93: the loop is over; lya = [exponents[i] / N].
LyaResult == [i \in 1..Len(l_exponents) |-> [P |-> l_exponents[i], N |-> l_N]]

LyaReturn ==
    /\ lpc = "loop"
    /\ l_n >= l_N
    /\ lya' = LyaResult
    /\ pc' = "record"
    /\ lpc' = "off"
    /\ l_N' = 0 /\ l_basis' = Unbound /\ l_xvalues' = Unbound
    /\ l_A' = Unbound /\ l_B' = Unbound /\ l_J' = Unbound
    /\ l_u_nk' = Unbound /\ l_exponents' = Unbound /\ l_n' = 0
    /\ UNCHANGED <<Ninit, cutoff, A, B, ia, ib, xvalues, yvalues, point_attr,
                   lim_cycle, basisVects, all_exp1, all_exp2, a_exp1, a_exp2,
                   ret, exc, calls, eig>>
    /\ UNCHANGED <<detVars, gsVars>>

(***************************************************************************)
(* ClosedFormEstimators.  ge.solve_eig_vals is not part of the source; it  *)
(* is a function of its arguments, held in eig.                            *)
(***************************************************************************)
solve_eig_vals(xp, av, bv) == eig[xp]

lyapunov_point(xp, av, bv) ==
    LET sol  == solve_eig_vals(xp, av, bv)
        lya1 == LogOf(FAbs(sol[1]))
        lya2 == LogOf(FAbs(sol[2]))
    IN  <<PyMax(lya1, lya2), PyMin(lya1, lya2)>>

lyapunov_period(xpoints, av, bv) ==
    LET lya1 == [k \in 1..Len(xpoints) |-> lyapunov_point(xpoints[k], av, bv)[1]]
        lya2 == [k \in 1..Len(xpoints) |-> lyapunov_point(xpoints[k], av, bv)[2]]
    IN  <<PyMax(NpMean(lya1), NpMean(lya2)), PyMin(NpMean(lya1), NpMean(lya2))>>

(***************************************************************************)
(* SpectrumDispatcher: calc_lya_henon.  Henon, ge.determine_point and      *)
(* ge.determine_period are not part of the source: each call answers with  *)
(* any value its interface allows.                                         *)
(***************************************************************************)
MaxSweep  == 2      \* longest array of parameter values
MaxCells  == 2      \* most cells (a, b) in one call
MaxNinit  == 2      \* largest Ninit
MaxPeriod == 2      \* longest cycle determine_period reports

AVals == {Num(1), Num(2)}
BVals == {Num(0), Frac(1, 2)}
XVals == {Num(0), Frac(1, 2)}
EigPairs == { <<Num(-2), Num(1)>>, <<Frac(1, 2), Num(3)>> }
\* One pair with the larger modulus first, one with it second.
EigTables == { t \in [XVals -> EigPairs] : t[Num(0)] = <<Num(-2), Num(1)>> /\ t[Num(0)] # t[Frac(1, 2)] }

\* start = (0, 0): only its length and its two entries are read.
Start == <<Num(0), Num(0)>>

\* The arrays swept: increasing parameter values (np.linspace, np.arange).
Sweeps(S) ==
    { w \in UNION { [1..k -> S] : k \in 1..MaxSweep } :
        \A i \in 1..Len(w) : \A k \in 1..Len(w) : i < k => FLt(w[i], w[k]) }

Args(S) == { [t |-> "ndarray", v |-> w] : w \in Sweeps(S) } \cup
           { [t |-> "number", v |-> <<x>>] : x \in S }

IsArray(p)  == p.t = "ndarray"      \* isinstance(p, np.ndarray)
IsNumber(p) == p.t = "number"       \* isinstance(p, float) or isinstance(p, int)

Arity == IF IsArray(A) /\ IsArray(B) THEN "AA"
         ELSE IF IsArray(A) /\ IsNumber(B) THEN "AS"
         ELSE IF IsArray(B) /\ IsNumber(A) THEN "SA"
         ELSE IF IsNumber(A) /\ IsNumber(B) THEN "SS"
         ELSE "invalid"

\* The loop variables a and b (or the scalars A and B) of the current cell.
CurA == IF IsArray(A) THEN A.v[ia] ELSE A.v[1]
CurB == IF IsArray(B) THEN B.v[ib] ELSE B.v[1]

listVars == <<ia, ib, all_exp1, all_exp2, a_exp1, a_exp2>>

\* exp1_add(e1); exp2_add(e2), and on to the head of the innermost loop.
AppendCell(e1, e2) ==
    IF Arity = "AA"
    THEN /\ a_exp1' = Append(a_exp1, e1)
         /\ a_exp2' = Append(a_exp2, e2)
         /\ ib' = ib + 1
         /\ pc' = IF ib = Len(B.v) THEN "rowend" ELSE "loop"
         /\ UNCHANGED <<ia, all_exp1, all_exp2>>
    ELSE /\ all_exp1' = Append(all_exp1, e1)
         /\ all_exp2' = Append(all_exp2, e2)
         /\ IF Arity = "AS"
            THEN /\ ia' = ia + 1
                 /\ pc' = IF ia = Len(A.v) THEN "return" ELSE "loop"
                 /\ UNCHANGED ib
            ELSE /\ ib' = ib + 1
                 /\ pc' = IF ib = Len(B.v) THEN "return" ELSE "loop"
                 /\ UNCHANGED ia
         /\ UNCHANGED <<a_exp1, a_exp2>>

Goto(l) == pc' = l /\ UNCHANGED listVars

\* np.array(basisVects): a new array holding the same numbers.
NpArray(b) == b.list

\* Lyapunov(Ninit-cutoff, np.array(basisVects), xvalues[cutoff:], a, b)
CallLyapunov(av, bv) ==
    /\ l_N' = Ninit - cutoff
    /\ l_basis' = NpArray(basisVects)
    /\ l_xvalues' = SubSeq(xvalues.list, cutoff + 1, Len(xvalues.list))
    /\ l_A' = av
    /\ l_B' = bv
    /\ lpc' = "first"
    /\ UNCHANGED <<l_J, l_u_nk, l_exponents, l_n>>

\* What Henon returns: (None, None) on divergence, else Ninit points.
HenonDiverged == <<None, None>>

HenonOrbits ==
    { <<PyList(xs), PyList([k \in 1..Ninit |-> Num(0)])>> : xs \in [1..Ninit -> XVals] }

\* What the fixed-point and cycle oracles answer for an orbit, when not None:
\* the point the orbit ends in, the last p points of the orbit.
FixedPoints(xs, ys) == { [point |-> <<xs[Len(xs)], ys[Len(ys)]>>] }

Cycles(xs, ys) ==
    { [cycle |-> <<p, SubSeq(xs, Len(xs) - p + 1, Len(xs))>>] :
        p \in { q \in 2..MaxPeriod : q <= Len(xs) } }

AskOracles ==
    /\ \/ point_attr' = None
       \/ point_attr' \in FixedPoints(xvalues.list, yvalues.list)
    /\ \/ lim_cycle' = None
       \/ lim_cycle' \in Cycles(xvalues.list, yvalues.list)

\* max(lya), min(lya) of a non-empty list.
RECURSIVE PyMaxList(_)
PyMaxList(ls) == IF Len(ls) = 1 THEN ls[1]
                 ELSE PyMax(PyMaxList(SubSeq(ls, 1, Len(ls) - 1)), ls[Len(ls)])

RECURSIVE PyMinList(_)
PyMinList(ls) == IF Len(ls) = 1 THEN ls[1]
                 ELSE PyMin(PyMinList(SubSeq(ls, 1, Len(ls) - 1)), ls[Len(ls)])

\* ---- the dispatch on the types of A and B

\* Lines 166-173.
EnterAA ==
    /\ pc = "entry" /\ Arity = "AA"
    /\ basisVects' = PyList(basis(Len(Start)))
    /\ all_exp1' = <<>> /\ all_exp2' = <<>>
    /\ a_exp1' = <<>> /\ a_exp2' = <<>>
    /\ pc' = "loop"
    /\ UNCHANGED <<Ninit, cutoff, A, B, ia, ib, xvalues, yvalues, point_attr,
                   lim_cycle, lya, ret, exc, calls, eig>>
    /\ UNCHANGED <<lyaVars, detVars, gsVars>>

\* Lines 221-226 and 266-271.
EnterOne(ar) ==
    /\ pc = "entry" /\ Arity = ar
    /\ all_exp1' = <<>> /\ all_exp2' = <<>>
    /\ pc' = "loop"
    /\ UNCHANGED <<Ninit, cutoff, A, B, ia, ib, xvalues, yvalues, point_attr,
                   lim_cycle, basisVects, a_exp1, a_exp2, lya, ret, exc, calls, eig>>
    /\ UNCHANGED <<lyaVars, detVars, gsVars>>

EnterAS == EnterOne("AS")
EnterSA == EnterOne("SA")

\* Line 311.
EnterSS ==
    /\ pc = "entry" /\ Arity = "SS"
    /\ pc' = "loop"
    /\ UNCHANGED <<Ninit, cutoff, A, B, xvalues, yvalues, point_attr,
                   lim_cycle, basisVects, lya, ret, exc, calls, eig>>
    /\ UNCHANGED <<listVars, lyaVars, detVars, gsVars>>

\* Lines 342-343.
EnterInvalid ==
    /\ pc = "entry" /\ Arity = "invalid"
    /\ exc' = "ValueError"
    /\ pc' = "raised"
    /\ UNCHANGED <<Ninit, cutoff, A, B, xvalues, yvalues, point_attr,
                   lim_cycle, basisVects, lya, ret, calls, eig>>
    /\ UNCHANGED <<listVars, lyaVars, detVars, gsVars>>

\* ---- one cell of a sweep over arrays

\* Lines 183-189, 231-237, 276-282: Henon, then the divergence check.
HenonSweepReturned(h) ==
    /\ xvalues' = h[1]
    /\ yvalues' = h[2]
    /\ IF h[1] = None THEN AppendCell(None, None) ELSE Goto("oracles")

HenonSweep ==
    /\ pc = "loop" /\ Arity \in {"AA", "AS", "SA"}
    /\ \/ HenonSweepReturned(HenonDiverged)
       \/ \E h \in HenonOrbits : HenonSweepReturned(h)
    /\ calls' = <<"Henon">>
    /\ UNCHANGED <<Ninit, cutoff, A, B, point_attr, lim_cycle, basisVects,
                   lya, ret, exc, eig>>
    /\ UNCHANGED <<lyaVars, detVars, gsVars>>

\* Lines 193-194, 241-242, 286-287.
OraclesSweep ==
    /\ pc = "oracles" /\ Arity \in {"AA", "AS", "SA"}
    /\ AskOracles
    /\ calls' = calls \o <<"determine_point", "determine_period">>
    /\ Goto("branch")
    /\ UNCHANGED <<Ninit, cutoff, A, B, xvalues, yvalues, basisVects,
                   lya, ret, exc, eig>>
    /\ UNCHANGED <<lyaVars, detVars, gsVars>>

\* Lines 197-207, 245-255, 290-300: the choice of the estimator.  The
\* arguments of the call of Lyapunov are evaluated first, basisVects among
\* them, which is bound only where the function has assigned it.
BranchSweep ==
    /\ pc = "branch" /\ Arity \in {"AA", "AS", "SA"}
    /\ IF point_attr # None
       THEN /\ AppendCell(lyapunov_point(point_attr.point[1], CurA, CurB)[1],
                          lyapunov_point(point_attr.point[1], CurA, CurB)[2])
            /\ calls' = calls \o <<"lyapunov_point", "lyapunov_point">>
            /\ UNCHANGED <<exc, lyaVars>>
       ELSE IF lim_cycle # None
       THEN /\ AppendCell(lyapunov_period(lim_cycle.cycle[2], CurA, CurB)[1],
                          lyapunov_period(lim_cycle.cycle[2], CurA, CurB)[2])
            /\ calls' = calls \o <<"lyapunov_period", "lyapunov_period">>
            /\ UNCHANGED <<exc, lyaVars>>
       ELSE IF basisVects = Unbound
       THEN /\ exc' = "UnboundLocalError"
            /\ Goto("raised")
            /\ UNCHANGED <<calls, lyaVars>>
       ELSE /\ CallLyapunov(CurA, CurB)
            /\ calls' = Append(calls, "Lyapunov")
            /\ Goto("lyapunov")
            /\ UNCHANGED exc
    /\ UNCHANGED <<Ninit, cutoff, A, B, xvalues, yvalues, point_attr, lim_cycle,
                   basisVects, lya, ret, eig>>
    /\ UNCHANGED <<detVars, gsVars>>

\* Lines 208-213, 256-261, 301-306.
RecordSweep ==
    /\ pc = "record" /\ Arity \in {"AA", "AS", "SA"}
    /\ IF lya[1] # None
       THEN AppendCell(PyMaxList(lya), PyMinList(lya))
       ELSE AppendCell(None, None)
    /\ UNCHANGED <<Ninit, cutoff, A, B, xvalues, yvalues, point_attr, lim_cycle,
                   basisVects, lya, ret, exc, calls, eig>>
    /\ UNCHANGED <<lyaVars, detVars, gsVars>>

\* Lines 215-216, and line 173 for the next row.
RowEnd ==
    /\ pc = "rowend"
    /\ all_exp1' = Append(all_exp1, a_exp1)
    /\ all_exp2' = Append(all_exp2, a_exp2)
    /\ ia' = ia + 1
    /\ IF ia = Len(A.v)
       THEN pc' = "return" /\ UNCHANGED <<ib, a_exp1, a_exp2>>
       ELSE pc' = "loop" /\ ib' = 1 /\ a_exp1' = <<>> /\ a_exp2' = <<>>
    /\ UNCHANGED <<Ninit, cutoff, A, B, xvalues, yvalues, point_attr, lim_cycle,
                   basisVects, lya, ret, exc, calls, eig>>
    /\ UNCHANGED <<lyaVars, detVars, gsVars>>

\* Lines 218, 263, 308.
ReturnSweep ==
    /\ pc = "return"
    /\ ret' = PyTuple(<<all_exp1, all_exp2>>)
    /\ pc' = "done"
    /\ UNCHANGED <<Ninit, cutoff, A, B, xvalues, yvalues, point_attr, lim_cycle,
                   basisVects, lya, exc, calls, eig>>
    /\ UNCHANGED <<listVars, lyaVars, detVars, gsVars>>

\* ---- scalar A and scalar B

\* Lines 314-317.
HenonSS ==
    /\ pc = "loop" /\ Arity = "SS"
    /\ \E h \in {HenonDiverged} \cup HenonOrbits : xvalues' = h[1] /\ yvalues' = h[2]
    /\ basisVects' = PyList(basis(Len(Start)))
    /\ calls' = <<"Henon">>
    /\ Goto("oracles")
    /\ UNCHANGED <<Ninit, cutoff, A, B, point_attr, lim_cycle, lya, ret, exc, eig>>
    /\ UNCHANGED <<lyaVars, detVars, gsVars>>

\* Lines 320-321, reached whatever Henon returned.  Given None for an
\* orbit, an oracle either raises or answers None.
OraclesSS ==
    /\ pc = "oracles" /\ Arity = "SS"
    /\ IF xvalues = None
       THEN \/ /\ exc' = "TypeError"
               /\ calls' = Append(calls, "determine_point")
               /\ Goto("raised")
               /\ UNCHANGED <<point_attr, lim_cycle>>
            \/ /\ point_attr' = None
               /\ lim_cycle' = None
               /\ calls' = calls \o <<"determine_point", "determine_period">>
               /\ Goto("branch")
               /\ UNCHANGED exc
       ELSE /\ AskOracles
            /\ calls' = calls \o <<"determine_point", "determine_period">>
            /\ Goto("branch")
            /\ UNCHANGED exc
    /\ UNCHANGED <<Ninit, cutoff, A, B, xvalues, yvalues, basisVects, lya, ret, eig>>
    /\ UNCHANGED <<lyaVars, detVars, gsVars>>

\* Lines 324-337.
BranchSS ==
    /\ pc = "branch" /\ Arity = "SS"
    /\ IF xvalues = None
       THEN /\ ret' = None
            /\ Goto("done")
            /\ UNCHANGED <<calls, lyaVars>>
       ELSE IF point_attr # None
       THEN /\ ret' = PyList(lyapunov_point(point_attr.point[1], CurA, CurB))
            /\ calls' = Append(calls, "lyapunov_point")
            /\ Goto("done")
            /\ UNCHANGED lyaVars
       ELSE IF lim_cycle # None
       THEN /\ ret' = PyList(lyapunov_period(lim_cycle.cycle[2], CurA, CurB))
            /\ calls' = Append(calls, "lyapunov_period")
            /\ Goto("done")
            /\ UNCHANGED lyaVars
       ELSE /\ CallLyapunov(CurA, CurB)
            /\ calls' = Append(calls, "Lyapunov")
            /\ Goto("lyapunov")
            /\ UNCHANGED ret
    /\ UNCHANGED <<Ninit, cutoff, A, B, xvalues, yvalues, point_attr, lim_cycle,
                   basisVects, lya, exc, eig>>
    /\ UNCHANGED <<detVars, gsVars>>

\* Line 339.
RecordSS ==
    /\ pc = "record" /\ Arity = "SS"
    /\ ret' = PyList(lya)
    /\ Goto("done")
    /\ UNCHANGED <<Ninit, cutoff, A, B, xvalues, yvalues, point_attr, lim_cycle,
                   basisVects, lya, exc, calls, eig>>
    /\ UNCHANGED <<lyaVars, detVars, gsVars>>

(***************************************************************************)
(* AttractorClassifier                                                     *)
(***************************************************************************)
det_att(lya1, lya2, acc) ==
    IF lya1 = None THEN 5
    ELSE IF FLt(lya1, FSub(Num(0), acc))
         THEN (IF FLt(FAdd(lya2, acc), lya1) THEN 0 ELSE 1)
    ELSE IF FLt(FSub(Num(0), acc), lya1) /\ FLt(lya1, acc) THEN 2
    ELSE IF FLt(Num(0), lya1) THEN (IF FLt(lya2, acc) THEN 3 ELSE 4)
    ELSE 5

(***************************************************************************)
(* Specifications                                                          *)
(***************************************************************************)
MapIdle ==
    /\ pc = "idle"
    /\ Ninit = 0 /\ cutoff = 0 /\ A = None /\ B = None /\ ia = 1 /\ ib = 1
    /\ xvalues = Unbound /\ yvalues = Unbound
    /\ point_attr = Unbound /\ lim_cycle = Unbound /\ basisVects = Unbound
    /\ all_exp1 = Unbound /\ all_exp2 = Unbound
    /\ a_exp1 = Unbound /\ a_exp2 = Unbound
    /\ lya = Unbound /\ ret = Unbound /\ exc = "" /\ calls = <<>>
    /\ eig = None

DetIdle == dpc = "idle" /\ d_lya1 = None /\ d_lya2 = None /\ d_acc = None /\ d_ret = None

GSIdle == gpc = "idle" /\ g_vectors = <<>> /\ g_ret = <<>>

\* ---- a call det_att(lya1, lya2, acc) with lya1 >= lya2, or lya1 = None
DetMax == 4         \* exponents range over -DetMax/10 .. DetMax/10
AccMax == 2         \* acc ranges over 0 .. AccMax/10

DetLyas == { Frac(k, 10) : k \in -DetMax..DetMax }
DetAccs == { Frac(k, 10) : k \in 0..AccMax }

InitDet ==
    /\ dpc = "call"
    /\ \/ d_lya1 = None /\ d_lya2 = None
       \/ /\ d_lya1 \in DetLyas
          /\ d_lya2 \in DetLyas
          /\ ~FLt(d_lya1, d_lya2)
    /\ d_acc \in DetAccs
    /\ d_ret = None
    /\ MapIdle /\ LyaIdle /\ GSIdle

DetCall ==
    /\ dpc = "call"
    /\ d_ret' = det_att(d_lya1, d_lya2, d_acc)
    /\ dpc' = "done"
    /\ UNCHANGED <<d_lya1, d_lya2, d_acc>>
    /\ UNCHANGED <<mapVars, lyaVars, gsVars>>

NextDet == DetCall

SpecDet == InitDet /\ [][NextDet]_vars

\* ---- a call Gram_Schmidt(vectors) on vectors of dimension len(start)
MaxVecs == 3        \* most vectors in the list

GSComps == {Num(-1), Num(0), Num(1)}
GSVectors == [1..Len(Start) -> GSComps]
GSInputs == UNION { [1..k -> GSVectors] : k \in 1..MaxVecs }

InitGS ==
    /\ gpc = "call"
    /\ g_vectors \in GSInputs
    /\ g_ret = <<>>
    /\ MapIdle /\ LyaIdle /\ DetIdle

GSCall ==
    /\ gpc = "call"
    /\ g_ret' = Gram_Schmidt(g_vectors)
    /\ gpc' = "done"
    /\ UNCHANGED g_vectors
    /\ UNCHANGED <<mapVars, lyaVars, detVars>>

NextGS == GSCall

SpecGS == InitGS /\ [][NextGS]_vars

\* A call calc_lya_henon(Ninit, cutoff, (0, 0), A, B).
Init ==
    /\ pc = "entry"
    /\ Ninit \in 1..MaxNinit
    /\ cutoff \in 0..(Ninit - 1)
    /\ A \in Args(AVals) \cup { [t |-> "other", v |-> <<>>] }
    /\ B \in Args(BVals)
    /\ Len(A.v) * Len(B.v) <= MaxCells
    /\ eig \in EigTables
    /\ ia = 1 /\ ib = 1
    /\ xvalues = Unbound /\ yvalues = Unbound
    /\ point_attr = Unbound /\ lim_cycle = Unbound /\ basisVects = Unbound
    /\ all_exp1 = Unbound /\ all_exp2 = Unbound
    /\ a_exp1 = Unbound /\ a_exp2 = Unbound
    /\ lya = Unbound /\ ret = Unbound /\ exc = "" /\ calls = <<>>
    /\ LyaIdle /\ DetIdle /\ GSIdle

Next ==
    \/ EnterAA \/ EnterAS \/ EnterSA \/ EnterSS \/ EnterInvalid
    \/ HenonSweep \/ OraclesSweep \/ BranchSweep \/ RecordSweep
    \/ RowEnd \/ ReturnSweep
    \/ HenonSS \/ OraclesSS \/ BranchSS \/ RecordSS
    \/ LyaFirst \/ LyaLoop \/ LyaReturn

Spec == Init /\ [][Next]_vars

(***************************************************************************)
(* Properties                                                              *)
(***************************************************************************)
Sweeping == Arity \in {"AA", "AS", "SA"}

\* The call has got past the dispatch on the types of A and B.
Entered == pc \in {"loop", "oracles", "branch", "lyapunov", "record",
                   "rowend", "return", "done"}
           \/ (pc = "raised" /\ exc # "ValueError")

\* Henon has signalled divergence for the current cell.
DivergedCell == Entered /\ xvalues = None

\* Henon has returned an orbit for the current cell.
OrbitCell == Entered /\ xvalues # None /\ xvalues # Unbound

\* The entries most recently appended to the two result lists of a sweep.
LastOf(row, rows) ==
    IF Len(row) > 0 THEN row[Len(row)]
    ELSE LET r == rows[Len(rows)] IN r[Len(r)]

Last1 == IF Arity = "AA" THEN LastOf(a_exp1, all_exp1) ELSE all_exp1[Len(all_exp1)]
Last2 == IF Arity = "AA" THEN LastOf(a_exp2, all_exp2) ELSE all_exp2[Len(all_exp2)]

\* The number of values of the one array swept (AS, SA).
SweptLen == IF Arity = "AS" THEN Len(A.v) ELSE Len(B.v)
SweptPos == IF Arity = "AS" THEN ia ELSE ib

\* first >= second, for two values with the same N and a comparable P.
Ordered(e1, e2) == ~LLt(e1, e2)

OrderedLists(l1, l2) ==
    \A k \in 1..Len(l1) : l1[k] # None => Ordered(l1[k], l2[k])

\* Some accumulator slot met a zero norm: its sum is -inf (P = 0) or nan.
Degenerate(l) == \E i \in 1..Len(l) : l[i].P[1] = 0

\* What Lyapunov(N, basis0, xs, av, bv) returns, as a function of its
\* arguments alone.
RECURSIVE LyaIterate(_, _, _, _, _, _, _, _)
LyaIterate(M, u, e, k, N, xs, av, bv) ==
    IF k >= N THEN [i \in 1..Len(e) |-> [P |-> e[i], N |-> N]]
    ELSE LET r == LyaPass(M, u, e)
         IN  LyaIterate(Jacobian(av, bv, xs[k + 1]), r.u_nk, r.exponents,
                        k + 1, N, xs, av, bv)

LyapunovOf(N, basis0, xs, av, bv) ==
    LET M == Jacobian(av, bv, xs[1])
        r == LyaPass(M, basis0, [i \in 1..Len(basis0) |-> Num(1)])
    IN  LyaIterate(M, r.u_nk, r.exponents, 1, N, xs, av, bv)

\* The orbit values past the cutoff.
PastCutoff == SubSeq(xvalues.list, cutoff + 1, Len(xvalues.list))

\* C1: when Henon signals divergence for a cell, nothing else is called for
\* that cell (no oracle, no estimator), the call does not fail, and the
\* cell's result is None.
C1_DivergenceShortCircuits ==
    DivergedCell =>
        /\ calls = <<"Henon">>
        /\ pc # "raised"
        /\ Sweeping => Last1 = None /\ Last2 = None
        /\ (Arity = "SS" /\ pc = "done") => ret = None

\* The row of the classifier table that matches first.
DetTable(lya1, lya2, tol) ==
    LET neg == FSub(Num(0), tol)
    IN  IF lya1 = None THEN 5
        ELSE IF FLt(lya1, neg) /\ FLt(FAdd(lya2, tol), lya1) THEN 0
        ELSE IF FLt(lya1, neg) /\ ~FLt(FAdd(lya2, tol), lya1) THEN 1
        ELSE IF ~FLt(lya1, neg) /\ FLt(lya1, tol) THEN 2
        ELSE IF ~FLt(lya1, tol) /\ FLt(lya2, tol) THEN 3
        ELSE IF ~FLt(lya1, tol) /\ ~FLt(lya2, tol) THEN 4
        ELSE 5

\* C2: det_att returns the label of the first matching row of the table;
\* in particular lya1 = -tolerance is an invariant circle (2).
C2_DetAttFollowsTable ==
    dpc = "done" => d_ret = DetTable(d_lya1, d_lya2, d_acc)

\* C3: every pair of exponents calc_lya_henon reports, other than the None
\* sentinel, has the larger exponent first, whatever the arity and the
\* estimator.
C3_LargerExponentFirst ==
    /\ (Arity = "SS" /\ pc = "done" /\ ret # None) =>
            Ordered(ret.list[1], ret.list[2])
    /\ (Sweeping /\ Entered) =>
            /\ IF Arity = "AA"
               THEN /\ OrderedLists(a_exp1, a_exp2)
                    /\ \A r \in 1..Len(all_exp1) :
                          OrderedLists(all_exp1[r], all_exp2[r])
               ELSE OrderedLists(all_exp1, all_exp2)

\* C4: with one array of k values and one scalar, every cell adds one entry
\* to each list whatever its outcome, and the call returns two lists of
\* length k.
C4_OneEntryPerSweptValue ==
    (Arity \in {"AS", "SA"} /\ Entered) =>
        /\ pc # "raised"
        /\ Len(all_exp1) = Len(all_exp2)
        /\ pc = "loop" => Len(all_exp1) = SweptPos - 1
        /\ pc = "done" => /\ Len(ret.tuple[1]) = SweptLen
                          /\ Len(ret.tuple[2]) = SweptLen

\* The cell just recorded went through Lyapunov.
RecordedFromLyapunov ==
    /\ Sweeping
    /\ pc \in {"loop", "rowend", "return"}
    /\ calls # <<>>
    /\ calls[Len(calls)] = "Lyapunov"

\* C5: a zero norm met during the iteration is recorded as (None, None) for
\* that cell, and the sweep goes on.
C5_DegenerateIsSentinel ==
    (RecordedFromLyapunov /\ Degenerate(lya)) => Last1 = None /\ Last2 = None

\* C6: for a cell whose orbit did not diverge, the estimator is the one the
\* dispatch rule names, the iterator is called with N = Ninit - cutoff, the
\* orbit past the cutoff and the standard basis, and the call does not fail.
C6_DispatchRule ==
    OrbitCell =>
        /\ pc # "raised"
        /\ Len(calls) >= 4 =>
              calls[4] = IF point_attr # None THEN "lyapunov_point"
                         ELSE IF lim_cycle # None THEN "lyapunov_period"
                         ELSE "Lyapunov"
        /\ lpc # "off" =>
              /\ l_N = Ninit - cutoff
              /\ l_xvalues = PastCutoff
              /\ l_basis = basis(Len(Start))

\* C7: step n of Lyapunov propagates with the Jacobian of xvalues[n], for
\* every n in 0..N-1, and the sums are divided by N.
C7_JacobianOfStepN ==
    /\ (lpc = "loop" /\ l_n < l_N) =>
            l_J = Jacobian(l_A, l_B, l_xvalues[l_n + 1])
    /\ pc = "record" => \A i \in 1..Len(lya) : lya[i].N = Ninit - cutoff

\* The working basis holds finite numbers (no zero vector was normalized).
FiniteBasis ==
    \A i \in 1..Len(l_u_nk) : \A k \in 1..Len(l_u_nk[i]) : ~IsNaN(l_u_nk[i][k])

\* C8: after each orthogonalization and normalization pass the working
\* basis is orthonormal: inner product 0, each vector of unit length.
C8_OrthonormalAfterPass ==
    (lpc = "loop" /\ FiniteBasis) =>
        /\ inner_vect(l_u_nk[1], l_u_nk[2]) = Num(0)
        /\ \A i \in 1..Len(l_u_nk) : norm_vect(l_u_nk[i]) = Num(1)

IsZero(v) == \A k \in 1..Len(v) : v[k] = Num(0)

NonFinalNonZero(vs) == \A k \in 1..(Len(vs) - 1) : ~IsZero(vs[k])

C10_CellsIndependent ==
    /\ (Arity = "AA" /\ Entered) => basisVects = PyList(basis(Len(Start)))
    /\ lpc # "off" => /\ l_basis = basis(Len(Start))
                      /\ l_xvalues = PastCutoff
    /\ pc = "record" =>
          lya = LyapunovOf(Ninit - cutoff, basis(Len(Start)), PastCutoff, CurA, CurB)

\* A later cell of an array/array sweep comes back from the iterator after
\* an earlier cell of the same call was recorded.
C10_Witness ==
    /\ Arity = "AA"
    /\ pc = "record"
    /\ (ia > 1 \/ ib > 1)
    /\ Ninit - cutoff > 1
    /\ ~Degenerate(lya)

====
